---- MODULE Spec2Model ----
(***************************************************************************)
(* The tool-mediated edit pipeline of claude-engineer/main.py:             *)
(*   parse_search_replace_blocks, generate_edit_instructions,              *)
(*   edit_and_apply_multiple and apply_edits.                              *)
(*                                                                         *)
(* Text is modelled as a sequence of one-character strings, so that the    *)
(* string operations of the source (strip, literal search, re.sub, the     *)
(* difflib ratio, the block regex) are computed character by character.    *)
(***************************************************************************)
EXTENDS Integers, Sequences, FiniteSets, TLC

(***************************************************************************)
(* Text helpers                                                            *)
(***************************************************************************)

\* Python's str.strip() / the regex class \s, restricted to the whitespace
\* characters the model's texts contain.
IsWs(c) == c \in {" ", "\n", "\t"}

RECURSIVE lstrip(_)
lstrip(s) ==
    IF s = <<>> THEN <<>>
    ELSE IF IsWs(Head(s)) THEN lstrip(Tail(s)) ELSE s

RECURSIVE rstrip(_)
rstrip(s) ==
    IF s = <<>> THEN <<>>
    ELSE IF IsWs(s[Len(s)]) THEN rstrip(SubSeq(s, 1, Len(s) - 1)) ELSE s

\* str.strip()
strip(s) == rstrip(lstrip(s))

\* s occurs in t starting at the 1-based position p
OccursAt(t, p, s) ==
    /\ p >= 1
    /\ p + Len(s) - 1 <= Len(t)
    /\ \A k \in 1..Len(s) : t[p + k - 1] = s[k]

\* The 1-based start of the first occurrence of s in t at or after position
\* from, 0 when there is none.  The empty text occurs at every position.
find_from(t, s, from) ==
    LET hits == {p \in from..(Len(t) - Len(s) + 1) : OccursAt(t, p, s)}
    IN  IF hits = {} THEN 0 ELSE CHOOSE p \in hits : \A q \in hits : p <= q

\* `s in t` of Python
contains(t, s) == find_from(t, s, 1) # 0

\* The fragment compiled without re.escape: "." is a pattern that matches any
\* character (re.DOTALL).
MatchesPatternAt(t, p, s) ==
    /\ p >= 1
    /\ p + Len(s) - 1 <= Len(t)
    /\ \A k \in 1..Len(s) : s[k] = "." \/ t[p + k - 1] = s[k]

re_search_unescaped(s, t) ==
    LET hits == {p \in 1..(Len(t) - Len(s) + 1) : MatchesPatternAt(t, p, s)}
    IN  IF hits = {} THEN 0 ELSE CHOOSE p \in hits : \A q \in hits : p <= q

\* re.compile(re.escape(s), re.DOTALL).search(t): the fragment is escaped, so
\* it is searched literally; the result is the 1-based start of the leftmost
\* match, 0 for no match (the span is [start, start + Len(s))).
re_search_escaped(s, t) == find_from(t, s, 1)

(***************************************************************************)
(* The four structural markers                                             *)
(***************************************************************************)
TAG_SEARCH_OPEN   == <<"<", "S", "E", "A", "R", "C", "H", ">">>
TAG_SEARCH_CLOSE  == <<"<", "/", "S", "E", "A", "R", "C", "H", ">">>
TAG_REPLACE_OPEN  == <<"<", "R", "E", "P", "L", "A", "C", "E", ">">>
TAG_REPLACE_CLOSE == <<"<", "/", "R", "E", "P", "L", "A", "C", "E", ">">>

Markers == {TAG_SEARCH_OPEN, TAG_SEARCH_CLOSE, TAG_REPLACE_OPEN, TAG_REPLACE_CLOSE}

\* re.sub(r'</?SEARCH>|</?REPLACE>', '', s): one left-to-right pass that drops
\* every non-overlapping occurrence of a marker.
RECURSIVE sub_tags_from(_, _)
sub_tags_from(s, p) ==
    IF p > Len(s) THEN <<>>
    ELSE LET here == {m \in Markers : OccursAt(s, p, m)}
         IN  IF here # {}
             THEN sub_tags_from(s, p + Len(CHOOSE m \in here : TRUE))
             ELSE <<s[p]>> \o sub_tags_from(s, p + 1)

re_sub_tags(s) == sub_tags_from(s, 1)

(***************************************************************************)
(* difflib                                                                 *)
(***************************************************************************)

\* SequenceMatcher.find_longest_match over whole a and b, no junk (autojunk
\* only acts on a second sequence of 200 or more elements): the longest common
\* block, the one starting earliest in a and then earliest in b.
find_longest_match(a, b) ==
    LET blocks == {m \in (1..Len(a)) \X (1..Len(b)) \X (1..Len(a)) :
                     /\ m[1] + m[3] - 1 <= Len(a)
                     /\ m[2] + m[3] - 1 <= Len(b)
                     /\ \A k \in 0..(m[3] - 1) : a[m[1] + k] = b[m[2] + k]}
    IN  IF blocks = {} THEN <<1, 1, 0>>
        ELSE CHOOSE m \in blocks :
               \A n \in blocks :
                  \/ m[3] > n[3]
                  \/ m[3] = n[3] /\ m[1] < n[1]
                  \/ m[3] = n[3] /\ m[1] = n[1] /\ m[2] <= n[2]

\* The number of matched elements SequenceMatcher.get_matching_blocks finds:
\* the longest block, then recursively the pieces left and right of it.
RECURSIVE matches(_, _)
matches(a, b) ==
    IF a = <<>> \/ b = <<>> THEN 0
    ELSE LET m == find_longest_match(a, b)
         IN  IF m[3] = 0 THEN 0
             ELSE m[3]
                  + matches(SubSeq(a, 1, m[1] - 1), SubSeq(b, 1, m[2] - 1))
                  + matches(SubSeq(a, m[1] + m[3], Len(a)),
                            SubSeq(b, m[2] + m[3], Len(b)))

\* SequenceMatcher(None, a, b).ratio() = 2.0 * matches / (len(a) + len(b)),
\* 1.0 for two empty sequences; kept exact as <<numerator, denominator>>.
ratio(a, b) ==
    IF Len(a) + Len(b) = 0 THEN <<1, 1>>
    ELSE <<2 * matches(a, b), Len(a) + Len(b)>>

\* x >= n/d for a ratio x = <<num, den>>
RatioGE(x, n, d) == x[1] * d >= n * x[2]

\* difflib.get_close_matches(word, [possibility], n=1, cutoff=0.6): the
\* possibility is kept when ratio(possibility, word) >= cutoff (the two quick
\* ratios are upper bounds of it).  Returns a list of zero or one text.
get_close_matches(word, possibility) ==
    IF RatioGE(ratio(possibility, word), 6, 10) THEN <<possibility>> ELSE <<>>

(***************************************************************************)
(* parse_search_replace_blocks                                             *)
(***************************************************************************)

\* main.py:157
USE_FUZZY_SEARCH == TRUE

\* The position after the whitespace run that starts at p (the regex's \s*
\* in front of a piece that starts with a non-whitespace character).
RECURSIVE skip_ws(_, _)
skip_ws(t, p) ==
    IF p <= Len(t) /\ IsWs(t[p]) THEN skip_ws(t, p + 1) ELSE p

\* The start of the whitespace run that ends just before position q, never
\* below lo (where a lazy group followed by \s* ends).
RECURSIVE back_ws(_, _, _)
back_ws(t, q, lo) ==
    IF q > lo /\ IsWs(t[q - 1]) THEN back_ws(t, q - 1, lo) ELSE q

\* The tail of the pattern from </SEARCH> on, tried with </SEARCH> at q:
\*   </SEARCH>\s*<REPLACE>\s*(.*?)\s*</REPLACE>
\* [ok, replace, stop]: whether it matches, group 2, the position after it.
match_tail(t, q) ==
    LET u  == skip_ws(t, q + Len(TAG_SEARCH_CLOSE))
        g2 == skip_ws(t, u + Len(TAG_REPLACE_OPEN))
        v  == find_from(t, TAG_REPLACE_CLOSE, g2)
    IN  IF OccursAt(t, q, TAG_SEARCH_CLOSE) /\ OccursAt(t, u, TAG_REPLACE_OPEN) /\ v # 0
        THEN [ok |-> TRUE, replace |-> SubSeq(t, g2, back_ws(t, v, g2) - 1),
              stop |-> v + Len(TAG_REPLACE_CLOSE)]
        ELSE [ok |-> FALSE, replace |-> <<>>, stop |-> 0]

\* The whole pattern tried at position p (re.DOTALL, so . is any character):
\*   <SEARCH>\s*(.*?)\s*</SEARCH>\s*<REPLACE>\s*(.*?)\s*</REPLACE>
\* The lazy group 1 ends before the first </SEARCH> from which the tail
\* matches.
match_at(t, p) ==
    LET g1 == skip_ws(t, p + Len(TAG_SEARCH_OPEN))
        qs == {q \in g1..Len(t) : match_tail(t, q).ok}
    IN  IF OccursAt(t, p, TAG_SEARCH_OPEN) /\ qs # {}
        THEN LET q  == CHOOSE x \in qs : \A y \in qs : x <= y
                 tl == match_tail(t, q)
             IN  [ok |-> TRUE, search |-> SubSeq(t, g1, back_ws(t, q, g1) - 1),
                  replace |-> tl.replace, stop |-> tl.stop]
        ELSE [ok |-> FALSE, search |-> <<>>, replace |-> <<>>, stop |-> 0]

\* re.findall(pattern, response_text, re.DOTALL): the non-overlapping matches
\* from left to right, as <<group 1, group 2>> pairs.
RECURSIVE re_findall_from(_, _)
re_findall_from(t, p) ==
    IF p > Len(t) THEN <<>>
    ELSE LET m == match_at(t, p)
         IN  IF m.ok THEN <<<<m.search, m.replace>>>> \o re_findall_from(t, m.stop)
             ELSE re_findall_from(t, p + 1)

\* The parser that computes every similarity from the closest match
parse_block_no_literal_test(text, use_fuzzy, pair) ==
    LET search  == strip(pair[1])
        replace == strip(pair[2])
        best_match == get_close_matches(search, text)
    IN  [search |-> search, replace |-> replace,
         similarity |-> IF best_match # <<>> THEN ratio(search, best_match[1])
                        ELSE <<0, 1>>]

\* Lines 510-527: one block per match.  similarity is a ratio <<num, den>>.
parse_block(text, use_fuzzy, pair) ==
    LET search  == strip(pair[1])
        replace == strip(pair[2])
        best_match == get_close_matches(search, text)
        similarity ==
            IF use_fuzzy /\ ~contains(text, search)
            THEN IF best_match # <<>> THEN ratio(search, best_match[1]) ELSE <<0, 1>>
            ELSE <<1, 1>>
    IN  [search |-> search, replace |-> replace, similarity |-> similarity]

parse_search_replace_blocks_fuzzy(text, use_fuzzy) ==
    LET found == re_findall_from(text, 1)
    IN  [k \in 1..Len(found) |-> parse_block(text, use_fuzzy, found[k])]

\* parse_search_replace_blocks(response_text) with the default use_fuzzy
parse_search_replace_blocks(text) ==
    parse_search_replace_blocks_fuzzy(text, USE_FUZZY_SEARCH)

(***************************************************************************)
(* Bounds and input sets                                                   *)
(***************************************************************************)

\* the largest max_retries argument of edit_and_apply_multiple explored
MaxRetries == 2
\* the largest number of file entries in one batch
MaxFiles == 2
\* the largest number of blocks in one generated response
MaxBlocks == 2
\* the largest number of edits handed to apply_edits when it is called directly
MaxEdits == 2
\* the longest document over {a, b} handed to apply_edits directly
MaxDocLen == 2

Paths == {"p1", "p2"}

\* A path without a file / without a cache entry.  Both are one-element
\* lists that are no text, so that they compare with texts.
NotFound == <<"(no file)">>
Absent == <<"(no entry)">>

\* A batch entry without a 'path' key
Malformed == [malformed |-> TRUE]

Str_ab == <<"a", "b">>

(***************************************************************************)
(* The generator (the model call inside generate_edit_instructions)        *)
(***************************************************************************)

\* the (search, replace) pairs the generator composes its responses from
GenPairs ==
    { << <<"a">>, <<"c">> >>,
      << <<"c">>, <<"d">> >> }

\* The tagged text of one pair, as the system prompt asks the model to write it
FormatBlock(pair) ==
    TAG_SEARCH_OPEN \o <<"\n">> \o pair[1] \o <<"\n">> \o TAG_SEARCH_CLOSE \o <<"\n">>
    \o TAG_REPLACE_OPEN \o <<"\n">> \o pair[2] \o <<"\n">> \o TAG_REPLACE_CLOSE \o <<"\n">>

RECURSIVE FormatBlocks(_)
FormatBlocks(pairs) ==
    IF pairs = <<>> THEN <<>>
    ELSE FormatBlock(Head(pairs)) \o FormatBlocks(Tail(pairs))

SeqsUpTo(S, n) == UNION {[1..k -> S] : k \in 0..n}

\* What the model call can give back: a response text, or an API error
ApiError == <<"(api error)">>
Responses ==
    {FormatBlocks(ps) : ps \in SeqsUpTo(GenPairs, MaxBlocks)}
    \cup { <<"o", "k">> }
GenOutcomes == Responses \cup {ApiError}

\* generate_edit_instructions, lines 400-488: the parsed blocks of the
\* response, or the empty list when anything in the call raised.
\* The except branch handing back a block instead of the empty list
generate_edit_instructions_stale(outcome) ==
    IF outcome = ApiError
    THEN <<[search |-> <<"a">>, replace |-> <<"c">>, similarity |-> <<1, 1>>]>>
    ELSE parse_search_replace_blocks(outcome)

generate_edit_instructions(outcome) ==
    IF outcome = ApiError THEN <<>> ELSE parse_search_replace_blocks(outcome)

\* Every outcome of the model call with what generate_edit_instructions
\* returns for it and whether the call got as far as line 482
GenCalls ==
    {[error |-> o = ApiError, blocks |-> generate_edit_instructions(o)] : o \in GenOutcomes}

(***************************************************************************)
(* apply_edits, one edit                                                   *)
(***************************************************************************)

\* The gate with the threshold at 0.7
passes_gate_low_threshold(edit, doc) ==
    \/ re_search_escaped(strip(edit.search), doc) # 0
    \/ (USE_FUZZY_SEARCH /\ RatioGE(edit.similarity, 7, 10))

\* The gate without the similarity test
passes_gate_any_similarity(edit, doc) ==
    \/ re_search_escaped(strip(edit.search), doc) # 0
    \/ USE_FUZZY_SEARCH

\* Line 650: whether the edit enters the applying branch at all
passes_gate(edit, doc) ==
    \/ re_search_escaped(strip(edit.search), doc) # 0
    \/ (USE_FUZZY_SEARCH /\ RatioGE(edit.similarity, 8, 10))

\* The closest-match fallback taking the span of the longest piece the
\* fragment and the document have in common
match_edit_fuzzy_longest_block(edit, doc) ==
    LET search_content == strip(edit.search)
        m    == re_search_escaped(search_content, doc)
        best == get_close_matches(search_content, doc)
        blk  == find_longest_match(doc, search_content)
    IN  IF ~passes_gate(edit, doc)
        THEN [found |-> FALSE, start |-> 0, stop |-> 0, via |-> "none"]
        ELSE IF m # 0
        THEN [found |-> TRUE, start |-> m, stop |-> m + Len(search_content),
              via |-> "literal"]
        ELSE IF best # <<>>
        THEN [found |-> TRUE, start |-> blk[1], stop |-> blk[1] + blk[3],
              via |-> "fuzzy"]
        ELSE [found |-> FALSE, start |-> 0, stop |-> 0, via |-> "none"]

\* Lines 642-657: where the edit's search fragment is found in the current
\* document.  [found, start, stop, via]: the span is [start, stop) 1-based.
match_edit(edit, doc) ==
    LET search_content == strip(edit.search)
        m    == re_search_escaped(search_content, doc)
        best == get_close_matches(search_content, doc)
        m2   == IF best # <<>> THEN re_search_escaped(best[1], doc) ELSE 0
    IN  IF ~passes_gate(edit, doc)
        THEN [found |-> FALSE, start |-> 0, stop |-> 0, via |-> "none"]
        ELSE IF m # 0
        THEN [found |-> TRUE, start |-> m, stop |-> m + Len(search_content),
              via |-> "literal"]
        ELSE IF m2 # 0
        THEN [found |-> TRUE, start |-> m2, stop |-> m2 + Len(best[1]),
              via |-> "fuzzy"]
        ELSE [found |-> FALSE, start |-> 0, stop |-> 0, via |-> "none"]

\* Lines 659-662: the document with the matched span replaced by the cleaned
\* replacement.
splice(edit, doc, span) ==
    SubSeq(doc, 1, span.start - 1)
    \o re_sub_tags(strip(edit.replace))
    \o SubSeq(doc, span.stop, Len(doc))

\* The file written whether or not a change was made
writes_file_always(changed) == TRUE

\* Lines 682-689: apply_edits writes the file when a change was made
writes_file(changed) == changed

\* The entry apply_edits appends to failed_edits (lines 673, 678):
\* f"Edit {i}: {search_content}"
failed_entry(idx, edit) == [i |-> idx, search |-> strip(edit.search)]

(***************************************************************************)
(* State                                                                   *)
(***************************************************************************)
VARIABLES
    caller,             \* "batch": edit_and_apply_multiple runs;
                        \* "direct": apply_edits is called on its own
    files,              \* the batch: a list of entries
    max_retries,        \* the max_retries argument
    fidx,               \* index of the entry the for loop of line 552 is at
    pc,                 \* where control is
    attempt,            \* the loop variable of line 562
    path,               \* path / file_path
    instructions,       \* list: the entry's instructions, then the retry notes
    original_content,
    edit_instructions,
    edit_i,             \* the loop variable i of line 641
    edited_content,
    changes_made,
    failed_edits,       \* the list of line 629
    console_output,     \* the list of line 630
    file_contents,      \* the global cache: path -> text or Absent
    code_editor_files,  \* the global set of line 169
    storage,            \* the file system: path -> text or NotFound
    results,            \* the list of line 550
    gen_calls,          \* observer: generator calls made for the current entry
    gen_error,          \* observer: the last generator call raised
    writes,             \* observer: writes of the file made for the current entry
    wrote,              \* observer: the current apply_edits call wrote the file
    hist,               \* observer: what each attempt for the current entry did
    read_storage,       \* observer: the step just taken opened the file at line 558
    response_text,      \* the argument of parse_search_replace_blocks
    returned_blocks,    \* the list `blocks` parse_search_replace_blocks returns
    parse_input,        \* observer: what response_text was composed from
    tool_name,          \* the tool execute_tool is running, "none" between tools
    tools_done,         \* the number of tool uses chat_with_claude has handled
    running_processes,  \* the global registry of line 178: process id -> process
    proc_status,        \* the operating system's view of each process started
    spawned,            \* the number of processes started so far
    exec_result,        \* what the last execute_code tool use returned
    stop_result,        \* what the last stop_process tool use returned
    automode,           \* the global flag of line 172
    max_iterations,     \* main's local: the iteration limit of the automode command
    iteration_count,    \* main's local: the loop counter of line 1785
    iterations_run,     \* observer: chat calls the automode loop has made
    completed,          \* observer: a response of this automode run held the exit phrase
    chat_automode       \* observer: the flag as the last regular chat turn saw it

vars == <<caller, files, max_retries, fidx, pc, attempt, path, instructions,
          original_content, edit_instructions, edit_i, edited_content,
          changes_made, failed_edits, console_output, file_contents,
          code_editor_files, storage, results, gen_calls, gen_error, writes,
          wrote, hist, read_storage, response_text, returned_blocks,
          parse_input, tool_name, tools_done, running_processes, proc_status,
          spawned, exec_result, stop_result, automode, max_iterations,
          iteration_count, iterations_run, completed, chat_automode>>

observers == <<gen_calls, gen_error, writes, wrote, hist, read_storage>>

\* The state of a call of parse_search_replace_blocks on its own
parseVars == <<response_text, returned_blocks, parse_input>>

\* The state of the session around the tools: chat_with_claude and main
toolVars == <<tool_name, tools_done>>
procVars == <<running_processes, proc_status, spawned, exec_result, stop_result>>
autoVars == <<automode, max_iterations, iteration_count, iterations_run,
              completed, chat_automode>>
sessionVars == <<toolVars, procVars, autoVars>>

\* the largest number of processes execute_code starts in one session
MaxProcs == 3

\* No execute_code tool use yet; process ids are the n of f"process_{n}"
NoResult == [process_id |-> -1, return_code |-> "none", note |-> FALSE]

\* The session as main starts it: no tool use handled, no process registered
\* (line 178), automode off (line 172)
NoSession ==
    /\ tool_name = "none"
    /\ tools_done = 0
    /\ running_processes = [n \in {} |-> 0]
    /\ proc_status = [h \in 1..MaxProcs |-> "none"]
    /\ spawned = 0
    /\ exec_result = NoResult
    /\ stop_result = "none"
    /\ automode = FALSE
    /\ max_iterations = 0
    /\ iteration_count = 0
    /\ iterations_run = 0
    /\ completed = FALSE
    /\ chat_automode = FALSE

args == <<caller, files, max_retries>>
applyLocals == <<edit_i, edited_content, changes_made, failed_edits, console_output>>

\* The result lines of lines 586, 589, 593, 597 and 599
Line(kind, p) == [kind |-> kind, path |-> p]

FileEntries == {[path |-> p, instructions |-> <<"edit">>] : p \in Paths} \cup {Malformed}

\* The file system and the cache when the batch starts: p1 holds "ab", p2 is
\* missing or empty; a cached path holds what the file holds.
InitStores ==
    { [p \in Paths |-> IF p = "p1" THEN Str_ab ELSE c] : c \in {NotFound, <<>>} }
InitCaches(st) ==
    { fc \in [Paths -> {Absent, <<>>, Str_ab}] :
        \A p \in Paths : fc[p] # Absent => fc[p] = st[p] }

InitLocals ==
    /\ attempt = 0
    /\ instructions = <<>>
    /\ original_content = <<>>
    /\ edit_instructions = <<>>
    /\ edit_i = 0
    /\ edited_content = <<>>
    /\ changes_made = FALSE
    /\ failed_edits = <<>>
    /\ console_output = <<>>
    /\ gen_calls = 0
    /\ gen_error = FALSE
    /\ writes = 0
    /\ wrote = FALSE
    /\ hist = <<>>
    /\ read_storage = FALSE

NoParse == [pairs |-> <<>>, junk |-> <<>>, at |-> 0, tight |-> FALSE,
            use_fuzzy |-> USE_FUZZY_SEARCH]

Init ==
    /\ caller = "batch"
    /\ files \in SeqsUpTo(FileEntries, MaxFiles)
    /\ max_retries \in 1..MaxRetries
    /\ fidx = 1
    /\ pc = IF files = <<>> THEN "returned" ELSE "start"
    /\ path = "p1"
    /\ storage \in InitStores
    /\ file_contents \in InitCaches(storage)
    /\ code_editor_files = {}
    /\ results = <<>>
    /\ InitLocals
    /\ response_text = <<>>
    /\ returned_blocks = <<>>
    /\ parse_input = NoParse
    /\ NoSession

(***************************************************************************)
(* edit_and_apply_multiple                                                 *)
(***************************************************************************)

\* The for loop of line 552 moves to the next entry, or the function returns
\* (line 603).  The locals of the finished entry are dead from here on.
NextFile ==
    /\ IF fidx < Len(files)
       THEN pc' = "start" /\ fidx' = fidx + 1
       ELSE pc' = "returned" /\ fidx' = fidx
    /\ attempt' = 0
    /\ instructions' = <<>>
    /\ original_content' = <<>>
    /\ edit_instructions' = <<>>
    /\ edit_i' = 0
    /\ edited_content' = <<>>
    /\ changes_made' = FALSE
    /\ failed_edits' = <<>>
    /\ console_output' = <<>>

\* Lines 598-601: an exception inside the try is recorded for the entry
Except(p) ==
    /\ results' = Append(results, Line("error", p))
    /\ NextFile

\* file_contents.get(path, "")
cache_get(fc, p) == IF fc[p] = Absent THEN <<>> ELSE fc[p]

\* The file read only when the path has no cache entry
needs_read_only_absent(fc, p) == fc[p] = Absent

\* Line 557, `if not original_content`: the file is read when the cache gave
\* no content, or empty content
needs_read(fc, p) == cache_get(fc, p) = <<>>

\* Lines 553-560: the entry's path and instructions, and its content from the
\* cache or from the file.
Start ==
    /\ pc = "start"
    /\ caller = "batch"
    /\ gen_calls' = 0
    /\ gen_error' = FALSE
    /\ writes' = 0
    /\ wrote' = FALSE
    /\ hist' = <<>>
    /\ UNCHANGED <<args, storage, code_editor_files, parseVars, sessionVars>>
    /\ read_storage' = (files[fidx] # Malformed
                        /\ needs_read(file_contents, files[fidx].path))
    /\ IF files[fidx] = Malformed
       THEN \* file['path'] raises outside the try: the call ends with it
            /\ pc' = "raised"
            /\ UNCHANGED <<fidx, attempt, path, instructions, original_content,
                           edit_instructions, applyLocals, file_contents, results>>
       ELSE /\ path' = files[fidx].path
            /\ IF ~needs_read(file_contents, path')
               THEN /\ original_content' = cache_get(file_contents, path')
                    /\ instructions' = files[fidx].instructions
                    /\ attempt' = 0
                    /\ pc' = "generate"
                    /\ UNCHANGED <<fidx, edit_instructions, applyLocals,
                                   file_contents, results>>
               ELSE IF storage[path'] = NotFound
               THEN \* open(path, 'r') raises
                    /\ Except(path')
                    /\ UNCHANGED file_contents
               ELSE /\ original_content' = storage[path']
                    /\ file_contents' = [file_contents EXCEPT ![path'] = storage[path']]
                    /\ instructions' = files[fidx].instructions
                    /\ attempt' = 0
                    /\ pc' = "generate"
                    /\ UNCHANGED <<fidx, edit_instructions, applyLocals, results>>

\* The failure line recorded only when the loop variable has run past the range
records_failure_past_end(att, retries) == att = retries

\* Line 596: `if attempt == max_retries - 1`, tested after the loop
records_failure(att, retries) == att = retries - 1

\* Line 596-597, then the next entry
EndLoop ==
    /\ pc = "endloop"
    /\ results' = IF records_failure(attempt, max_retries)
                  THEN Append(results, Line("failed", path))
                  ELSE results
    /\ NextFile
    /\ UNCHANGED <<args, path, file_contents, code_editor_files, storage,
                   observers, parseVars, sessionVars>>

\* No block taken as a reason to try again
after_generate_retry(blocks) == IF blocks # <<>> THEN "apply" ELSE "retry"

\* Lines 566 and 592-594: blocks are applied; no block ends the loop
after_generate(blocks) == IF blocks # <<>> THEN "apply" ELSE "no_changes"

\* range(max_retries + 1)
has_next_attempt_one_more(att, retries) == att + 1 < retries + 1

\* for attempt in range(max_retries): whether `continue` or the end of the
\* body starts another iteration
has_next_attempt(att, retries) == att + 1 < retries

\* Lines 564-566 and 592-594: one generator call.  With blocks, apply_edits is
\* entered (lines 626-630); without, "No changes suggested" and break.
Generate ==
    /\ pc = "generate"
    /\ \E call \in GenCalls :
         /\ edit_instructions' = call.blocks
         /\ gen_error' = call.error
         /\ code_editor_files' = IF call.error THEN code_editor_files
                                 ELSE code_editor_files \cup {path}
    /\ gen_calls' = gen_calls + 1
    /\ wrote' = FALSE
    /\ read_storage' = FALSE
    /\ CASE after_generate(edit_instructions') = "apply" ->
              /\ pc' = "apply"
              /\ edit_i' = 1
              /\ edited_content' = original_content
              /\ changes_made' = FALSE
              /\ failed_edits' = <<>>
              /\ console_output' = <<>>
              /\ UNCHANGED <<attempt, results, hist>>
         [] after_generate(edit_instructions') = "no_changes" ->
              /\ pc' = "endloop"
              /\ results' = Append(results, Line("no_changes_suggested", path))
              /\ hist' = Append(hist, [n |-> 0, applied |-> <<>>, pre |-> original_content])
              /\ UNCHANGED <<attempt, applyLocals>>
         [] OTHER ->
              \* the attempt ends without a result line
              /\ IF has_next_attempt(attempt, max_retries)
                 THEN pc' = "generate" /\ attempt' = attempt + 1
                 ELSE pc' = "endloop" /\ attempt' = attempt
              /\ hist' = Append(hist, [n |-> 0, applied |-> <<>>, pre |-> original_content])
              /\ UNCHANGED <<results, applyLocals>>
    /\ UNCHANGED <<args, fidx, path, instructions, original_content,
                   file_contents, storage, writes, parseVars, sessionVars>>

\* Lines 576-591, after apply_edits returned: what the attempt leads to
after_apply(changed, failed, att, retries) ==
    IF changed
    THEN IF failed # <<>> THEN "retry_partial" ELSE "applied"
    ELSE IF att = retries - 1 THEN "exhausted" ELSE "retry"

\* Observer: the blocks of an attempt that are not in its failed list, in order
RECURSIVE applied_from(_, _, _)
applied_from(blocks, failed, k) ==
    IF k > Len(blocks) THEN <<>>
    ELSE (IF \E f \in 1..Len(failed) : failed[f].i = k THEN <<>> ELSE <<blocks[k]>>)
         \o applied_from(blocks, failed, k + 1)

applied_blocks(blocks, failed) == applied_from(blocks, failed, 1)

\* The retry run on the content the previous attempt started from
retry_content_original(original, edited) == original

\* Line 583: the content the next attempt edits after a partial failure
retry_content(original, edited) == edited

\* Lines 573-591
Decide ==
    /\ pc = "decide"
    /\ LET what == after_apply(changes_made, failed_edits, attempt, max_retries)
           more == has_next_attempt(attempt, max_retries)
       IN  /\ file_contents' = IF changes_made
                               THEN [file_contents EXCEPT ![path] = edited_content]
                               ELSE file_contents
           /\ instructions' = IF what = "retry_partial"
                              THEN Append(instructions, failed_edits)
                              ELSE instructions
           /\ original_content' = IF what = "retry_partial"
                                  THEN retry_content(original_content, edited_content)
                                  ELSE original_content
           /\ results' = CASE what = "applied" -> Append(results, Line("applied", path))
                           [] what = "exhausted" -> Append(results, Line("no_changes_could", path))
                           [] OTHER -> results
           /\ IF what \in {"retry_partial", "retry"} /\ more
              THEN pc' = "generate" /\ attempt' = attempt + 1
              ELSE pc' = "endloop" /\ attempt' = attempt
    /\ hist' = Append(hist, [n |-> Len(edit_instructions),
                             applied |-> applied_blocks(edit_instructions, failed_edits),
                             pre |-> original_content])
    /\ UNCHANGED <<args, fidx, path, edit_instructions, applyLocals,
                   code_editor_files, storage, gen_calls, gen_error, writes, wrote,
                   read_storage, parseVars, sessionVars>>

(***************************************************************************)
(* apply_edits                                                             *)
(***************************************************************************)

\* Every edit searched in the document apply_edits was called with
current_document_original(original, edited) == original

\* Lines 648 and 662: the pattern is searched, and the replacement made, in
\* edited_content, the document as the edits before this one left it
current_document(original, edited) == edited

\* The flag raised only by an edit that made the text differ
marks_changed_if_differs(before, after) == before # after

\* Line 663, changes_made = True: every applied edit raises the flag
marks_changed(before, after) == TRUE

\* Lines 641-680: one iteration of the loop over the edits
ApplyEdit ==
    /\ pc = "apply"
    /\ LET edit == edit_instructions[edit_i]
           doc  == current_document(original_content, edited_content)
           span == match_edit(edit, doc)
       IN  IF span.found
           THEN /\ edited_content' = splice(edit, doc, span)
                /\ changes_made' = (changes_made \/ marks_changed(doc, edited_content'))
                /\ console_output' = Append(console_output, [kind |-> "applied", i |-> edit_i])
                /\ UNCHANGED failed_edits
           ELSE /\ failed_edits' = Append(failed_edits, failed_entry(edit_i, edit))
                /\ console_output' = Append(console_output, [kind |-> "not_applied", i |-> edit_i])
                /\ UNCHANGED <<edited_content, changes_made>>
    /\ edit_i' = edit_i + 1
    /\ pc' = IF edit_i < Len(edit_instructions) THEN "apply" ELSE "write"
    /\ UNCHANGED <<args, fidx, attempt, path, instructions, original_content,
                   edit_instructions, file_contents, code_editor_files, storage,
                   results, observers, parseVars, sessionVars>>

\* Line 694: apply_edits returns to its caller
Return ==
    /\ pc' = IF caller = "batch" THEN "decide" ELSE "returned"
    /\ UNCHANGED <<fidx, attempt, instructions, original_content,
                   edit_instructions, edit_i, edited_content, changes_made,
                   failed_edits, results>>

\* The write going to the file of the batch's first entry
write_target_first_entry(file_path) == files[1].path

\* Line 684, open(file_path, 'w'): the file apply_edits writes is the one it
\* was called for
write_target(file_path) == file_path

\* Lines 682-694: the file is written when a change was made
ApplyWrite ==
    /\ pc = "write"
    /\ IF writes_file(changes_made)
       THEN \/ /\ storage' = [storage EXCEPT ![write_target(path)] = edited_content]
               /\ wrote' = TRUE
               /\ writes' = writes + 1
               /\ console_output' = Append(console_output, [kind |-> "written", i |-> 0])
               /\ Return
            \/ \* open(file_path, 'w') raises: nothing is written
               /\ UNCHANGED <<storage, wrote, writes>>
               /\ IF caller = "batch"
                  THEN Except(path)
                  ELSE /\ pc' = "raised"
                       /\ UNCHANGED <<fidx, attempt, instructions, original_content,
                                      edit_instructions, applyLocals, results>>
       ELSE /\ console_output' = Append(console_output, [kind |-> "no_changes", i |-> 0])
            /\ UNCHANGED <<storage, wrote, writes>>
            /\ Return
    /\ UNCHANGED <<args, path, file_contents, code_editor_files, gen_calls,
                   gen_error, hist, read_storage, parseVars, sessionVars>>

Next ==
    \/ Start
    \/ Generate
    \/ ApplyEdit
    \/ ApplyWrite
    \/ Decide
    \/ EndLoop

Spec == Init /\ [][Next]_vars

(***************************************************************************)
(* apply_edits called on its own, on every document and edit list of the   *)
(* input sets below                                                        *)
(***************************************************************************)

Block(s, r, sim) == [search |-> s, replace |-> r, similarity |-> sim]

\* the documents: every text over {a, b} up to MaxDocLen, and two texts
\* with a regex metacharacter and a newline
DirectDocs ==
    SeqsUpTo({"a", "b"}, MaxDocLen)
    \cup { <<"a", ".", "b">>, <<"a", "\n", "b">> }

\* the edit blocks, their fragments stripped as parse_search_replace_blocks
\* leaves them (lines 511-512): exact fragments, absent fragments with a
\* similarity below, at and above 0.8, fragments with a metacharacter and a
\* newline, a replacement that carries markers, and one in which a marker
\* stands inside another
DirectBlocks ==
    { Block(<<"a">>, <<"c">>, <<1, 1>>),
      Block(<<"a", "b">>, <<"c", "d">>, <<1, 1>>),
      Block(<<"c", "d">>, <<"e", "f">>, <<1, 1>>),
      Block(<<"b">>, <<"b">>, <<1, 1>>),
      Block(<<"x">>, <<"y">>, <<0, 1>>),
      Block(<<"a", "c">>, <<"z">>, <<3, 4>>),
      Block(<<"a", "c">>, <<"z">>, <<4, 5>>),
      Block(<<".">>, <<"c">>, <<1, 1>>),
      Block(<<"a", "\n", "b">>, <<"c">>, <<1, 1>>),
      Block(<<"b">>, TAG_SEARCH_OPEN \o <<"c">> \o TAG_SEARCH_CLOSE, <<1, 1>>),
      Block(<<"a">>, <<"<", "S", "E", "A">> \o TAG_SEARCH_OPEN \o <<"R", "C", "H", ">">>,
            <<1, 1>>) }

InitApply ==
    /\ caller = "direct"
    /\ files = <<>>
    /\ max_retries = 1
    /\ fidx = 1
    /\ path = "p1"
    /\ original_content \in DirectDocs
    /\ edit_instructions \in SeqsUpTo(DirectBlocks, MaxEdits)
    \* lines 626-630
    /\ changes_made = FALSE
    /\ edited_content = original_content
    /\ failed_edits = <<>>
    /\ console_output = <<>>
    /\ edit_i = 1
    /\ pc = IF edit_instructions = <<>> THEN "write" ELSE "apply"
    /\ storage = [p \in Paths |-> IF p = "p1" THEN original_content ELSE NotFound]
    /\ file_contents = [p \in Paths |-> Absent]
    /\ code_editor_files = {}
    /\ results = <<>>
    /\ attempt = 0
    /\ instructions = <<>>
    /\ gen_calls = 0
    /\ gen_error = FALSE
    /\ writes = 0
    /\ wrote = FALSE
    /\ hist = <<>>
    /\ read_storage = FALSE
    /\ response_text = <<>>
    /\ returned_blocks = <<>>
    /\ parse_input = NoParse
    /\ NoSession

NextApply ==
    \/ ApplyEdit
    \/ ApplyWrite

SpecApply == InitApply /\ [][NextApply]_vars

(***************************************************************************)
(* Properties of apply_edits (checked under SpecApply)                     *)
(***************************************************************************)

\* d with the first occurrence of s replaced by r (s occurs in d)
StandsAt(d, q, s) ==
    /\ q + Len(s) <= Len(d) + 1
    /\ [k \in 1..Len(s) |-> d[q + k - 1]] = s

Occurs(d, s) == \E q \in 1..(Len(d) + 1) : StandsAt(d, q, s)

ReplaceFirst(d, s, r) ==
    LET p == CHOOSE q \in 1..(Len(d) + 1) :
                 StandsAt(d, q, s) /\ \A q2 \in 1..(q - 1) : ~StandsAt(d, q2, s)
    IN  [k \in 1..(p - 1) |-> d[k]] \o r
        \o [k \in 1..(Len(d) - Len(s) - p + 1) |-> d[p + Len(s) + k - 1]]

Exact == <<1, 1>>
Below08(sim) == 10 * sim[1] < 8 * sim[2]

\* apply_edits has returned from a call with the single edit E
ReturnedFromOne ==
    /\ caller = "direct"
    /\ pc = "returned"
    /\ Len(edit_instructions) = 1

\* C1 as the spec states it: for every document D and every edit block E with
\* similarity 1.0 whose search fragment occurs in D, applying [E] returns D
\* with the first occurrence of E.search replaced by E.replace, changed = true
\* and no failed edit.
C1_Original ==
    (ReturnedFromOne
       /\ edit_instructions[1].similarity = Exact
       /\ Occurs(original_content, edit_instructions[1].search))
    => /\ edited_content = ReplaceFirst(original_content, edit_instructions[1].search,
                                        edit_instructions[1].replace)
       /\ changes_made
       /\ failed_edits = <<>>

\* C1, amended: under the same condition, applying [E] returns D with the first
\* occurrence of E.search (metacharacters and newlines taken literally)
\* replaced by E.replace with the markers <SEARCH>, </SEARCH>, <REPLACE>,
\* </REPLACE> removed from it, changed = true and no failed edit.
C1_ExactMatch ==
    (ReturnedFromOne
       /\ edit_instructions[1].similarity = Exact
       /\ Occurs(original_content, edit_instructions[1].search))
    => /\ edited_content = ReplaceFirst(original_content, edit_instructions[1].search,
                                        re_sub_tags(edit_instructions[1].replace))
       /\ changes_made
       /\ failed_edits = <<>>

\* An exact edit whose fragment is a metacharacter was applied to a document
\* in which another character stands before it
C1_Witness ==
    /\ ReturnedFromOne
    /\ original_content = <<"a", ".", "b">>
    /\ edit_instructions[1].search = <<".">>
    /\ edit_instructions[1].similarity = Exact
    /\ changes_made

\* C2: for every document D and every edit block E whose search fragment does
\* not occur in D and whose similarity is below 0.8, applying [E] returns D
\* unchanged, changed = false, E's search text is in the failed edits, and
\* nothing is written.
C2_NoMatch ==
    (ReturnedFromOne
       /\ ~Occurs(original_content, edit_instructions[1].search)
       /\ Below08(edit_instructions[1].similarity))
    => /\ edited_content = original_content
       /\ ~changes_made
       /\ failed_edits = <<[i |-> 1, search |-> edit_instructions[1].search]>>
       /\ storage[path] = original_content
       /\ writes = 0

\* A block of similarity 0.75 whose fragment "ac" is absent from the document
\* "a", which is close enough to it for the closest-match search, has failed
C2_Witness ==
    /\ ReturnedFromOne
    /\ original_content = <<"a">>
    /\ edit_instructions[1].search = <<"a", "c">>
    /\ edit_instructions[1].similarity = <<3, 4>>
    /\ failed_edits # <<>>

\* C3: in every iteration of apply_edits' loop, the edit changes the document
\* or counts as applied only if its search fragment is found literally in the
\* current document, or fuzzy matching is on and its similarity is >= 0.8; in
\* every other case it is appended to the failed edits and the document stays
\* as it was before that edit.
C3_Step ==
    LET edit == edit_instructions[edit_i]
        gate == \/ Occurs(edited_content, edit.search)
                \/ (USE_FUZZY_SEARCH /\ ~Below08(edit.similarity))
    IN  pc = "apply" =>
          /\ (edited_content' # edited_content \/ failed_edits' = failed_edits) => gate
          /\ ~gate => /\ edited_content' = edited_content
                      /\ changes_made' = changes_made
                      /\ failed_edits' = Append(failed_edits,
                                                [i |-> edit_i, search |-> edit.search])

C3_OnlyGatedEditsApply == [][C3_Step]_vars

\* The first edit had similarity 0.8 and a fragment absent from the document,
\* and was applied through the closest-match search
C3_Witness ==
    /\ caller = "direct"
    /\ pc = "apply"
    /\ edit_i = 2
    /\ edit_instructions[1].similarity = <<4, 5>>
    /\ ~Occurs(original_content, edit_instructions[1].search)
    /\ changes_made
    /\ failed_edits = <<>>

(***************************************************************************)
(* Properties of edit_and_apply_multiple (checked under Spec)              *)
(***************************************************************************)

InLoop == caller = "batch" /\ pc \in {"generate", "apply", "write", "decide", "endloop"}

LastLine == results[Len(results)]

\* The for loop of line 562 has ended for the entry of `path` without an
\* exception: the state EndLoop leaves, with the observers still those of
\* that entry
EntryDone ==
    /\ caller = "batch"
    /\ pc \in {"start", "returned"}
    /\ hist # <<>>
    /\ results # <<>>
    /\ LastLine.kind # "error"

\* C4 as the spec states it: storage is written for a file only in an attempt
\* in which every edit block was applied (the failed-edit list is empty).
C4_Original ==
    (caller = "batch" /\ pc = "decide" /\ wrote) => failed_edits = <<>>

\* C4, amended: storage is written for a file only in an attempt in which at
\* least one edit block was applied, and what is written is the document with
\* that attempt's applied edits; an attempt that applies no edit never writes.
\* So at every point of the batch the file of the entry in progress holds the
\* content the attempt started from or, once apply_edits has written, the
\* content its applied edits produced.
C4_WriteOnlyWhenChanged ==
    InLoop =>
      /\ wrote => (changes_made /\ storage[path] = edited_content)
      /\ (pc = "decide" /\ ~changes_made) => ~wrote
      /\ pc \in {"generate", "apply", "write"} => storage[path] = original_content
      /\ pc = "decide" => storage[path] = IF changes_made THEN edited_content
                                          ELSE original_content

\* apply_edits wrote the file in an attempt that left an edit unapplied
C4_Witness ==
    /\ caller = "batch"
    /\ pc = "decide"
    /\ wrote
    /\ failed_edits # <<>>
    /\ storage[path] = edited_content
    /\ edited_content # original_content

\* Every generator call for the entry returned a single block, and it was not
\* applied
AllSingleMiss == \A k \in 1..Len(hist) : hist[k].n = 1 /\ hist[k].applied = <<>>

\* C5: the generator is never called more than max_retries times for an entry;
\* and when every call returns a single block that does not match, the loop
\* ends after exactly max_retries calls, failure is reported for the entry and
\* its file is never written.
C5_RetryBound ==
    /\ gen_calls <= max_retries
    /\ (EntryDone /\ AllSingleMiss) =>
         /\ gen_calls = max_retries
         /\ Len(hist) = max_retries
         /\ LastLine = Line("failed", path)
         /\ writes = 0
         /\ storage[path] = hist[1].pre

\* Two calls, each with one block that did not match, with max_retries = 2
C5_Witness ==
    /\ EntryDone
    /\ AllSingleMiss
    /\ max_retries = 2
    /\ gen_calls = 2
    /\ LastLine = Line("failed", path)

HasLineInLastTwo(l) ==
    \/ (Len(results) >= 1 /\ results[Len(results)] = l)
    \/ (Len(results) >= 2 /\ results[Len(results) - 1] = l)

AttemptsThatWrote == {j \in 1..Len(hist) : hist[j].applied # <<>>}

\* C6: an attempt on which the generator returns zero blocks is the last
\* generator call for the entry (the only one when it is the first attempt),
\* "No changes suggested for X" is recorded, and that attempt writes nothing.
C6_EarlyExit ==
    \A k \in 1..Len(hist) :
       (caller = "batch" /\ hist[k].n = 0) =>
          /\ k = Len(hist)
          /\ gen_calls = k
          /\ pc \in {"endloop", "start", "returned"}
          /\ HasLineInLastTwo(Line("no_changes_suggested", path))
          /\ writes = Cardinality(AttemptsThatWrote)
          /\ storage[path] = hist[k].pre

\* The second call returned zero blocks after a first attempt that applied
\* an edit and left another unapplied
C6_Witness ==
    /\ caller = "batch"
    /\ pc = "endloop"
    /\ Len(hist) = 2
    /\ hist[2].n = 0
    /\ hist[1].n = 2
    /\ Len(hist[1].applied) = 1
    /\ attempt = 1

\* Attempt 1 returned two blocks, one applied at a literal match and one
\* failed; attempt 2 returned one block, for the fragment that failed, and that
\* fragment occurs in the document attempt 1 left
PartialThenMatch ==
    /\ caller = "batch"
    /\ pc \in {"endloop", "generate"}
    /\ Len(hist) = 2
    /\ hist[1].n = 2
    /\ Len(hist[1].applied) = 1
    /\ Occurs(hist[1].pre, hist[1].applied[1].search)
    /\ Len(instructions) >= 2
    /\ Len(instructions[2]) = 1
    /\ Len(edit_instructions) = 1
    /\ edit_instructions[1].search = instructions[2][1].search
    /\ Occurs(ReplaceFirst(hist[1].pre, hist[1].applied[1].search,
                           hist[1].applied[1].replace),
              edit_instructions[1].search)

\* C7: in that case the loop ends with the file's content, in storage and in
\* the cache, being the original with both replacements made, and "Changes
\* applied to X" recorded.
C7_PartialSuccessRetry ==
    PartialThenMatch =>
        LET b1 == hist[1].applied[1]
            b2 == edit_instructions[1]
            d1 == ReplaceFirst(hist[1].pre, b1.search, b1.replace)
            d2 == ReplaceFirst(d1, b2.search, b2.replace)
        IN  /\ pc = "endloop"
            /\ storage[path] = d2
            /\ file_contents[path] = d2
            /\ LastLine = Line("applied", path)

\* "ab": attempt 1 fails c -> d and applies a -> c, attempt 2 applies c -> d
C7_Witness ==
    /\ PartialThenMatch
    /\ hist[1].pre = <<"a", "b">>
    /\ storage[path] = <<"d", "b">>
    /\ file_contents[path] = <<"d", "b">>

\* The batch ran without an exception: no malformed entry, no error line
NoErrors ==
    /\ \A k \in 1..Len(files) : files[k] # Malformed
    /\ \A k \in 1..Len(results) : results[k].kind # "error"

\* C8: when edit_and_apply_multiple returns, the summary holds exactly one
\* line per entry of the batch, in order, and it is one of "Changes applied to
\* X", "No changes suggested for X", "Failed to apply changes to X after N
\* attempts".
C8_OneLinePerFile ==
    (caller = "batch" /\ pc = "returned" /\ NoErrors) =>
       /\ Len(results) = Len(files)
       /\ \A k \in 1..Len(results) :
             /\ results[k].kind \in {"applied", "no_changes_suggested", "failed"}
             /\ (k <= Len(files) => results[k].path = files[k].path)

\* C9 as the spec states it: a generator call that fails while attempts remain
\* is followed by another generator call for the entry (the loop does not end
\* on it).
C9_Original ==
    (caller = "batch" /\ gen_error /\ attempt + 1 < max_retries) => pc # "endloop"

\* C9, amended: a generator call that fails is the last generator call for the
\* entry, whether or not attempts remain: it is handled as a response without
\* blocks ("No changes suggested for X" is recorded and the loop ends), and
\* never more than max_retries calls are made for an entry.
C9_FailedCallEndsLoop ==
    /\ gen_calls <= max_retries
    /\ (caller = "batch" /\ gen_error) =>
          /\ pc \in {"endloop", "start", "returned"}
          /\ hist # <<>>
          /\ hist[Len(hist)].n = 0
          /\ gen_calls = Len(hist)
          /\ HasLineInLastTwo(Line("no_changes_suggested", path))

\* The first call failed with an attempt left, and the loop has ended
C9_Witness ==
    /\ caller = "batch"
    /\ gen_error
    /\ pc = "endloop"
    /\ attempt = 0
    /\ max_retries = 2
    /\ gen_calls = 1

\* C10: a generator call that fails hands back the empty block list, and the
\* step it is part of does to the document, the cache, the storage and the
\* results exactly what a call that succeeds with zero blocks does: nothing
\* but record "No changes suggested for X" and end the loop.
C10_Step ==
    (pc = "generate" /\ (gen_error' \/ edit_instructions' = <<>>)) =>
       /\ edit_instructions' = <<>>
       /\ pc' = "endloop"
       /\ original_content' = original_content
       /\ file_contents' = file_contents
       /\ storage' = storage
       /\ results' = Append(results, Line("no_changes_suggested", path))

C10_FailureIsZeroBlocks == [][C10_Step]_vars

\* A failed call on the second attempt, after an attempt that wrote the file:
\* the loop has ended, the file and the cache hold what that attempt left
C10_Witness ==
    /\ caller = "batch"
    /\ gen_error
    /\ pc = "endloop"
    /\ attempt = 1
    /\ edit_instructions = <<>>
    /\ writes = 1
    /\ storage[path] = original_content
    /\ file_contents[path] = original_content
    /\ LastLine = Line("no_changes_suggested", path)

\* C11: an exception raised while one entry of the batch is processed (its
\* file cannot be read or written, the entry has no path) is recorded as that
\* entry's error result, the entries after it are still processed, and
\* edit_and_apply_multiple returns normally with a result for every entry:
\* the call never ends by raising, and once it has returned the summary has a
\* line for each entry.
C11_PerFileIsolation ==
    caller = "batch" =>
       /\ pc # "raised"
       /\ pc = "returned" =>
             /\ Len(results) >= Len(files)
             /\ \A k \in 1..Len(files) :
                   files[k] # Malformed =>
                      \E j \in 1..Len(results) : results[j].path = files[k].path

(***************************************************************************)
(* More properties of apply_edits (checked under SpecApply)                *)
(***************************************************************************)

\* C12: a call of apply_edits writes the file exactly once when at least one
\* edit was applied, the written content being the document it returns; when
\* no edit was applied (the empty edit list included) it writes nothing,
\* returns the document it was given and changed = false.  Nothing is written
\* before the loop over the edits has ended; a call whose one write raises
\* has written nothing.
C12_WriteOncePerCall ==
    caller = "direct" =>
       /\ writes <= 1
       /\ pc \in {"apply", "write"} => (writes = 0 /\ storage[path] = original_content)
       /\ pc = "returned" =>
             /\ changes_made <=> Len(failed_edits) < Len(edit_instructions)
             /\ changes_made => (writes = 1 /\ storage[path] = edited_content)
             /\ ~changes_made => /\ writes = 0
                                 /\ storage[path] = original_content
                                 /\ edited_content = original_content
             /\ edit_instructions = <<>> => ~changes_made
       /\ pc = "raised" => (changes_made /\ writes = 0 /\ storage[path] = original_content)

\* A call with one applied and one failed edit has returned after its write
C12_Witness ==
    /\ caller = "direct"
    /\ pc = "returned"
    /\ Len(edit_instructions) = 2
    /\ Len(failed_edits) = 1
    /\ changes_made
    /\ writes = 1
    /\ storage[path] = edited_content
    /\ edited_content # original_content

\* C13: each edit is matched against the document the edits before it
\* produced.  "ab" with [ab -> cd, cd -> ef] gives "ef" and no failed edit;
\* with [cd -> ef, ab -> cd] the edit searching "cd" is recorded as failed and
\* the result is "cd".  In general, two exact edits of which the first occurs
\* in D and the second occurs in D after the first replacement give D with both
\* replacements made one after the other.
C13_Sequential ==
    LET ab_cd == Block(<<"a", "b">>, <<"c", "d">>, Exact)
        cd_ef == Block(<<"c", "d">>, <<"e", "f">>, Exact)
    IN  (caller = "direct" /\ pc = "returned") =>
           /\ (original_content = Str_ab /\ edit_instructions = <<ab_cd, cd_ef>>) =>
                 (edited_content = <<"e", "f">> /\ failed_edits = <<>>)
           /\ (original_content = Str_ab /\ edit_instructions = <<cd_ef, ab_cd>>) =>
                 /\ edited_content = <<"c", "d">>
                 /\ failed_edits = <<[i |-> 1, search |-> <<"c", "d">>]>>
           /\ (/\ Len(edit_instructions) = 2
               /\ edit_instructions[1].similarity = Exact
               /\ edit_instructions[2].similarity = Exact
               /\ Occurs(original_content, edit_instructions[1].search)
               /\ Occurs(ReplaceFirst(original_content, edit_instructions[1].search,
                                      re_sub_tags(edit_instructions[1].replace)),
                         edit_instructions[2].search)) =>
                 /\ edited_content =
                       ReplaceFirst(ReplaceFirst(original_content,
                                                 edit_instructions[1].search,
                                                 re_sub_tags(edit_instructions[1].replace)),
                                    edit_instructions[2].search,
                                    re_sub_tags(edit_instructions[2].replace))
                 /\ failed_edits = <<>>

\* "ab" edited by [ab -> cd, cd -> ef]: the second edit found the "cd" the
\* first one had put there
C13_Witness ==
    /\ caller = "direct"
    /\ pc = "returned"
    /\ original_content = Str_ab
    /\ Len(edit_instructions) = 2
    /\ edit_instructions[1].search = Str_ab
    /\ edit_instructions[2].search = <<"c", "d">>
    /\ edited_content = <<"e", "f">>
    /\ failed_edits = <<>>

(***************************************************************************)
(* parse_search_replace_blocks called on its own, on texts composed of     *)
(* formatted pairs and of text outside any pair                            *)
(***************************************************************************)

\* the largest number of formatted pairs in one parsed text
MaxPairs == 2

\* the (search, replace) pairs the texts are formatted from: plain fragments,
\* fragments with whitespace around and inside them, an empty replacement,
\* and a replacement that carries a marker
ParsePairs ==
    { << <<"a">>, <<"c">> >>,
      << <<" ", "b", "\n">>, <<"d", " ">> >>,
      << <<"a", " ", "b">>, <<>> >>,
      << <<"a">>, <<"c">> \o TAG_REPLACE_CLOSE >> }

\* text that is no part of a pair: none, prose, a SEARCH section without its
\* REPLACE section, a REPLACE section without its SEARCH section
JunkTexts ==
    { <<>>,
      <<"o", "k">>,
      TAG_SEARCH_OPEN \o <<"x">> \o TAG_SEARCH_CLOSE,
      TAG_REPLACE_OPEN \o <<"y">> \o TAG_REPLACE_CLOSE }

\* <SEARCH>s</SEARCH><REPLACE>r</REPLACE>, nothing between the markers
FormatTight(pair) ==
    TAG_SEARCH_OPEN \o pair[1] \o TAG_SEARCH_CLOSE
    \o TAG_REPLACE_OPEN \o pair[2] \o TAG_REPLACE_CLOSE

RECURSIVE FormatPairs(_, _)
FormatPairs(pairs, tight) ==
    IF pairs = <<>> THEN <<>>
    ELSE (IF tight THEN FormatTight(Head(pairs)) ELSE FormatBlock(Head(pairs)))
         \o FormatPairs(Tail(pairs), tight)

\* The text of an input: the pairs formatted in order, with the junk standing
\* after the first `at` of them
Compose(in) ==
    FormatPairs(SubSeq(in.pairs, 1, in.at), in.tight)
    \o in.junk
    \o FormatPairs(SubSeq(in.pairs, in.at + 1, Len(in.pairs)), in.tight)

ParseInputs ==
    { in \in [pairs : SeqsUpTo(ParsePairs, MaxPairs), junk : JunkTexts,
              at : 0..MaxPairs, tight : BOOLEAN, use_fuzzy : BOOLEAN] :
        /\ in.at <= Len(in.pairs)
        /\ (in.junk = <<>> => in.at = 0) }

InitParse ==
    /\ caller = "parse"
    /\ pc = "parse"
    /\ parse_input \in ParseInputs
    /\ response_text = Compose(parse_input)
    /\ returned_blocks = <<>>
    /\ files = <<>>
    /\ max_retries = 1
    /\ fidx = 1
    /\ path = "p1"
    /\ storage = [p \in Paths |-> NotFound]
    /\ file_contents = [p \in Paths |-> Absent]
    /\ code_editor_files = {}
    /\ results = <<>>
    /\ InitLocals
    /\ NoSession

\* Lines 490-529: one call of parse_search_replace_blocks, with either value
\* of its use_fuzzy parameter
Parse ==
    /\ pc = "parse"
    /\ caller = "parse"
    /\ returned_blocks' = parse_search_replace_blocks_fuzzy(response_text,
                                                            parse_input.use_fuzzy)
    /\ pc' = "returned"
    /\ UNCHANGED <<args, fidx, attempt, path, instructions, original_content,
                   edit_instructions, applyLocals, file_contents,
                   code_editor_files, storage, results, observers,
                   response_text, parse_input, sessionVars>>

NextParse == Parse

SpecParse == InitParse /\ [][NextParse]_vars

(***************************************************************************)
(* Properties of parse_search_replace_blocks (checked under SpecParse)     *)
(***************************************************************************)

HasMarker(s) == \E m \in Markers : Occurs(s, m)

MarkerFree(pairs) ==
    \A k \in 1..Len(pairs) : ~HasMarker(pairs[k][1]) /\ ~HasMarker(pairs[k][2])

\* The blocks of the pairs: their fragments without the whitespace around
\* them, similarity 1.0
BlocksOf(pairs) ==
    [k \in 1..Len(pairs) |->
        [search |-> strip(pairs[k][1]), replace |-> strip(pairs[k][2]),
         similarity |-> Exact]]

Parsed == caller = "parse" /\ pc = "returned"

\* C14 as the spec states it: formatting any N (search, replace) pairs as
\* tagged blocks and parsing the text gives N blocks in the same order, each
\* with similarity 1.0 and with its fragments equal to the originals up to
\* surrounding whitespace.
C14_Original ==
    (Parsed /\ parse_input.junk = <<>>) => returned_blocks = BlocksOf(parse_input.pairs)

\* C14, amended: the round trip holds for pairs whose fragments contain none
\* of the markers <SEARCH>, </SEARCH>, <REPLACE>, </REPLACE>: N blocks, in
\* the order of the pairs, similarity 1.0, fragments equal to the originals
\* up to surrounding whitespace (and an empty fragment comes back empty).
C14_RoundTrip ==
    (Parsed /\ parse_input.junk = <<>> /\ MarkerFree(parse_input.pairs)) =>
        /\ Len(returned_blocks) = Len(parse_input.pairs)
        /\ returned_blocks = BlocksOf(parse_input.pairs)

\* Two different pairs, one with whitespace around its fragments, written
\* without anything between the markers, have been parsed
C14_Witness ==
    /\ Parsed
    /\ parse_input.tight
    /\ parse_input.junk = <<>>
    /\ parse_input.pairs = << << <<" ", "b", "\n">>, <<"d", " ">> >>,
                              << <<"a">>, <<"c">> >> >>
    /\ Len(returned_blocks) = 2
    /\ returned_blocks[1].search = <<"b">>
    /\ returned_blocks[2].replace = <<"c">>

\* C20: the parser returns one block per well-formed pair, in order of
\* occurrence, and text that is no part of a well-formed pair (prose, a
\* SEARCH section without its REPLACE section, a REPLACE section without its
\* SEARCH section, wherever it stands) contributes nothing to any block; a
\* text without a well-formed pair gives the empty list.
C20_MalformedIgnored ==
    (Parsed /\ MarkerFree(parse_input.pairs)) =>
        returned_blocks = BlocksOf(parse_input.pairs)

(***************************************************************************)
(* More properties of edit_and_apply_multiple (checked under Spec, the     *)
(* termination of the retry loop under SpecFair)                           *)
(***************************************************************************)

\* An attempt whose every block was applied: changes made and no failed edit
FullyApplied(h) == h.n > 0 /\ Len(h.applied) = h.n

\* An attempt that applied some of its blocks and failed others
Partial(h) == Len(h.applied) > 0 /\ Len(h.applied) < h.n

NoFullSuccess == \A k \in 1..Len(hist) : ~FullyApplied(hist[k])

\* C15: when all max_retries attempts for an entry have been made and none of
\* them was fully applied, the loop ends there, "Failed to apply changes to X
\* after N attempts" is the entry's last line in the summary, and the batch
\* goes on to the next entry or returns: nothing is raised.
C15_RetryExhaustion ==
    (caller = "batch" /\ Len(hist) = max_retries /\ NoFullSuccess) =>
       /\ pc \in {"endloop", "start", "returned"}
       /\ pc = "endloop" => attempt = max_retries - 1
       /\ pc \in {"start", "returned"} => LastLine = Line("failed", path)

\* Two attempts with max_retries = 2: the first applied one block of two, the
\* second applied nothing, and the failure line has been recorded
C15_Witness ==
    /\ caller = "batch"
    /\ pc \in {"start", "returned"}
    /\ max_retries = 2
    /\ Len(hist) = 2
    /\ Partial(hist[1])
    /\ hist[2].n > 0
    /\ hist[2].applied = <<>>
    /\ LastLine = Line("failed", path)

\* The retry loop runs like any sequential code: a step that can be taken is
\* taken, and the model call of line 454 returns or raises
SpecFair == Spec /\ WF_vars(Next)

\* What holds of the loop at every moment: never more than max_retries
\* generator calls or attempts for an entry, and when the loop has ended
\* without an exception, its last attempt was fully applied, or returned no
\* block, or was the last allowed one
C16_Bound ==
    caller = "batch" =>
       /\ gen_calls <= max_retries
       /\ Len(hist) <= max_retries
       /\ pc = "endloop" =>
             /\ hist # <<>>
             /\ gen_calls = Len(hist)
             /\ \/ FullyApplied(hist[Len(hist)])
                \/ hist[Len(hist)].n = 0
                \/ Len(hist) = max_retries

NotApplied == {console_output[k].i : k \in {j \in 1..Len(console_output) :
                                              console_output[j].kind = "not_applied"}}

\* C17: after an attempt that changed the document and left edits unapplied,
\* with an attempt left, the next generator call is the next counted attempt
\* and is made with the mutated document as content and with the instructions
\* extended by one note, which lists exactly the search fragments of the edits
\* that failed in that attempt; the cache entry of the path (and the file)
\* holds the mutated document.
C17_PartialFailureStep ==
    (caller = "batch" /\ pc = "generate" /\ attempt > 0
       /\ changes_made /\ failed_edits # <<>>) =>
       /\ original_content = edited_content
       /\ file_contents[path] = edited_content
       /\ storage[path] = edited_content
       /\ gen_calls = attempt
       /\ Len(hist) = attempt
       /\ instructions[Len(instructions)] = failed_edits
       /\ Len(instructions) = 1 + Cardinality({k \in 1..Len(hist) : Partial(hist[k])})
       /\ Len(failed_edits) = Cardinality(NotApplied)
       /\ Len(failed_edits) + Len(hist[Len(hist)].applied) = Len(edit_instructions)
       /\ \A f \in 1..Len(failed_edits) :
             /\ failed_edits[f].i \in NotApplied
             /\ failed_edits[f].search = strip(edit_instructions[failed_edits[f].i].search)

\* "ab" after an attempt that failed c -> d and applied a -> c: the second
\* call is about to be made with "cb" and a note naming "c"
C17_Witness ==
    /\ caller = "batch"
    /\ pc = "generate"
    /\ attempt = 1
    /\ changes_made
    /\ Len(failed_edits) = 1
    /\ original_content = <<"c", "b">>
    /\ Len(instructions) = 2
    /\ instructions[2] = <<[i |-> 1, search |-> <<"c">>]>>

\* C18: an entry whose last attempt was fully applied is reported with
\* "Changes applied to X" and never also with "Failed to apply changes to X
\* after N attempts", on whichever attempt the success came.
C18_NoSuccessAndFailure ==
    (EntryDone /\ FullyApplied(hist[Len(hist)])) =>
       /\ HasLineInLastTwo(Line("applied", path))
       /\ LastLine.kind # "failed"

\* C19 as the spec states it: at the start of an entry, a path with a cache
\* entry (whatever it holds, the empty text included) is edited from the
\* cache without the file being read; only a path absent from the cache is
\* read, and what was read is stored in the cache.
C19_OriginalStep ==
    (caller = "batch" /\ pc = "start" /\ files[fidx] # Malformed) =>
       LET p == files[fidx].path
       IN  /\ file_contents[p] # Absent =>
                /\ ~read_storage'
                /\ original_content' = file_contents[p]
                /\ file_contents' = file_contents
           /\ file_contents[p] = Absent =>
                /\ read_storage'
                /\ storage[p] # NotFound =>
                      /\ original_content' = storage[p]
                      /\ file_contents' = [file_contents EXCEPT ![p] = storage[p]]

C19_Original == [][C19_OriginalStep]_vars

\* C19, amended: a path whose cache entry holds a non-empty text is edited
\* from the cache without the file being read; a path that is absent from the
\* cache, or whose cache entry is the empty text, is read from the file, and
\* what was read is stored in the cache (a file that cannot be read is
\* recorded as the entry's error and the cache is left as it was).
C19_Step ==
    (caller = "batch" /\ pc = "start" /\ files[fidx] # Malformed) =>
       LET p == files[fidx].path
           cached == file_contents[p] # Absent /\ file_contents[p] # <<>>
       IN  /\ cached =>
                /\ ~read_storage'
                /\ original_content' = file_contents[p]
                /\ file_contents' = file_contents
                /\ pc' = "generate"
           /\ ~cached =>
                /\ read_storage'
                /\ storage[p] # NotFound =>
                      /\ original_content' = storage[p]
                      /\ file_contents' = [file_contents EXCEPT ![p] = storage[p]]
                      /\ pc' = "generate"
                /\ storage[p] = NotFound =>
                      /\ file_contents' = file_contents
                      /\ results' = Append(results, Line("error", p))

C19_StartLoadsContent == [][C19_Step]_vars

\* The second entry of a batch is for the same empty file as the first, whose
\* start put the empty text in the cache: the file has been read again
C19_Witness ==
    /\ caller = "batch"
    /\ fidx = 2
    /\ files[1] # Malformed
    /\ files[2] # Malformed
    /\ files[1].path = "p2"
    /\ files[2].path = "p2"
    /\ results[1].kind # "error"
    /\ pc = "generate"
    /\ gen_calls = 0
    /\ read_storage
    /\ original_content = <<>>
    /\ file_contents["p2"] = <<>>

\* C21: every block parse_search_replace_blocks returns has similarity exactly
\* 1.0, for every text and either value of use_fuzzy: its trimmed search
\* fragment stands in the text it was extracted from, so no block gets a
\* score from the closest-match branch, and the applier's gate (line 650) is
\* open for it on every document.
C21_SimilarityAlwaysOne ==
    Parsed =>
       \A k \in 1..Len(returned_blocks) :
          /\ returned_blocks[k].similarity = Exact
          /\ Occurs(response_text, returned_blocks[k].search)
          /\ \A doc \in DirectDocs : passes_gate(returned_blocks[k], doc)

\* With use_fuzzy on, a text with prose in it was parsed into two blocks, one
\* of them from a fragment written with whitespace around it
C21_Witness ==
    /\ Parsed
    /\ parse_input.use_fuzzy
    /\ parse_input.junk = <<"o", "k">>
    /\ Len(returned_blocks) = 2
    /\ parse_input.pairs[1][1] = <<" ", "b", "\n">>
    /\ returned_blocks[1].search = <<"b">>
    /\ returned_blocks[1].similarity = Exact

(***************************************************************************)
(* The closest-match fallback and the replacement text of apply_edits      *)
(* (checked under SpecApply)                                               *)
(***************************************************************************)

\* C22: whenever an edit whose search fragment does not stand in the current
\* document is applied all the same (through the closest-match fallback), the
\* span it replaces is the whole current document: the document after the
\* edit is the cleaned replacement fragment alone.
C22_Step ==
    LET edit == edit_instructions[edit_i]
    IN  (caller = "direct" /\ pc = "apply"
           /\ ~Occurs(edited_content, strip(edit.search))
           /\ failed_edits' = failed_edits) =>
          /\ changes_made'
          /\ edited_content' = re_sub_tags(strip(edit.replace))

C22_FuzzyReplacesWholeDocument == [][C22_Step]_vars

\* "a.b" edited by [ab -> cd]: "ab" does not stand in the document, the
\* fallback applied the edit, and the document is "cd"
C22_Witness ==
    /\ ReturnedFromOne
    /\ original_content = <<"a", ".", "b">>
    /\ edit_instructions[1].search = Str_ab
    /\ ~Occurs(original_content, Str_ab)
    /\ changes_made
    /\ failed_edits = <<>>
    /\ edited_content = <<"c", "d">>

(***************************************************************************)
(* The order of the batch (checked under Spec)                             *)
(***************************************************************************)

\* At most one attempt of the entry in progress has been started and not
\* finished
C23_OneAttempt ==
    caller = "batch" =>
       /\ gen_calls - Len(hist) \in {0, 1}
       /\ pc \in {"generate", "endloop"} => gen_calls = Len(hist)
       /\ pc \in {"apply", "write", "decide"} => gen_calls = Len(hist) + 1

\* Every step of the batch works on the entry the for loop is at: a generator
\* call is made for that entry's path, a write changes that entry's file and
\* no other, and the loop only ever moves on from an entry to the one after
\* it, after which no step concerns the entry it left
C23_Step ==
    caller = "batch" =>
       /\ fidx' \in {fidx, fidx + 1}
       /\ pc = "generate" => (path = files[fidx].path /\ fidx' = fidx)
       /\ storage' # storage =>
             /\ pc = "write"
             /\ fidx' = fidx
             /\ path = files[fidx].path
             /\ \A p \in Paths \ {path} : storage'[p] = storage[p]
       /\ fidx' = fidx + 1 => (pc \in {"start", "write", "endloop"} /\ pc' = "start")

\* C23: within one call of edit_and_apply_multiple the entries are processed
\* one after the other: every generator call and every write for entry i is
\* made before the first generator call for entry i + 1, and at most one
\* attempt is in progress at any time.
C23_SequentialBatch == []C23_OneAttempt /\ [][C23_Step]_vars

\* The second entry, for another file than the first, is at its generator
\* call after the first entry's file was written in a second attempt
C23_Witness ==
    /\ caller = "batch"
    /\ fidx = 2
    /\ pc = "generate"
    /\ files[1].path = "p1"
    /\ files[2].path = "p2"
    /\ storage["p1"] = <<"d", "b">>
    /\ results = <<Line("applied", "p1")>>
    /\ gen_calls = 0

(***************************************************************************)
(* The file tools as chat_with_claude runs them: execute_tool, then the    *)
(* cache update of lines 1523-1540                                         *)
(***************************************************************************)

\* the largest number of tool uses in one session
MaxTools == 2

\* Line 1111 passes no max_retries: the default of line 531 applies, 3, as
\* far as the bound on max_retries lets it
DefaultRetries == IF MaxRetries < 3 THEN MaxRetries ELSE 3

\* the entries of a create_files call
CreateContents == {Str_ab, <<"c">>}
CreateEntries == [path : Paths, content : CreateContents]

\* create_files, lines 365-377, from entry k on: an entry whose write succeeds
\* (ok[k]) puts its content in the file and in the cache, one whose write
\* raises leaves both alone.  created: some result line says "File created
\* and added to system prompt".
RECURSIVE create_files(_, _, _, _, _)
create_files(fs, ok, k, st, fc) ==
    IF k > Len(fs) THEN [storage |-> st, cache |-> fc, created |-> FALSE]
    ELSE LET f    == fs[k]
             rest == IF ok[k]
                     THEN create_files(fs, ok, k + 1,
                                       [st EXCEPT ![f.path] = f.content],
                                       [fc EXCEPT ![f.path] = f.content])
                     ELSE create_files(fs, ok, k + 1, st, fc)
         IN  [rest EXCEPT !.created = ok[k] \/ rest.created]

\* chat_with_claude, lines 1525-1528: when the result text of create_files
\* holds "File created and added to system prompt", every entry of the tool
\* input is put in the cache
RECURSIVE cache_all_entries(_, _, _)
cache_all_entries(fs, k, fc) ==
    IF k > Len(fs) THEN fc
    ELSE cache_all_entries(fs, k + 1, [fc EXCEPT ![fs[k].path] = fs[k].content])

chat_update_after_create(fs, created, fc) ==
    IF created THEN cache_all_entries(fs, 1, fc) ELSE fc

\* read_multiple_files, lines 836-845 (read_file, lines 814-821, is the same
\* for one path): a file that can be read is put in the cache
RECURSIVE read_multiple_files(_, _, _, _)
read_multiple_files(ps, k, st, fc) ==
    IF k > Len(ps) THEN fc
    ELSE read_multiple_files(ps, k + 1, st,
                             IF st[ps[k]] = NotFound THEN fc
                             ELSE [fc EXCEPT ![ps[k]] = st[ps[k]]])

\* The batch variables while no batch runs
BatchIdle ==
    /\ files = <<>>
    /\ max_retries = DefaultRetries
    /\ fidx = 1
    /\ path = "p1"
    /\ results = <<>>
    /\ InitLocals

InitTools ==
    /\ caller = "batch"
    /\ pc = "idle"
    /\ BatchIdle
    /\ storage \in InitStores
    \* line 175
    /\ file_contents = [p \in Paths |-> Absent]
    /\ code_editor_files = {}
    /\ response_text = <<>>
    /\ returned_blocks = <<>>
    /\ parse_input = NoParse
    /\ NoSession

batchVars == <<files, max_retries, fidx, attempt, path, instructions,
               original_content, edit_instructions, applyLocals, results,
               observers>>

\* A tool use that is handled in one step
ToolUse(name) ==
    /\ pc = "idle"
    /\ tools_done < MaxTools
    /\ tools_done' = tools_done + 1
    /\ tool_name' = name
    /\ UNCHANGED <<caller, pc, batchVars, code_editor_files, parseVars,
                   procVars, autoVars>>

\* Lines 1104-1107 and 1524-1528
ToolCreateFiles ==
    /\ ToolUse("create_files")
    /\ \E fs \in SeqsUpTo(CreateEntries, MaxFiles) :
         \E ok \in [1..Len(fs) -> BOOLEAN] :
            LET r == create_files(fs, ok, 1, storage, file_contents)
            IN  /\ storage' = r.storage
                /\ file_contents' = chat_update_after_create(fs, r.created, r.cache)

\* Lines 1112-1113 and 1533-1536
ToolReadFile ==
    /\ ToolUse("read_file")
    /\ \E p \in Paths :
         file_contents' = read_multiple_files(<<p>>, 1, storage, file_contents)
    /\ UNCHANGED storage

\* Lines 1114-1115 and 1537-1539
ToolReadMultipleFiles ==
    /\ ToolUse("read_multiple_files")
    /\ \E ps \in SeqsUpTo(Paths, MaxFiles) :
         file_contents' = read_multiple_files(ps, 1, storage, file_contents)
    /\ UNCHANGED storage

\* Lines 1110-1111: edit_and_apply_multiple is entered
ToolEditBegin ==
    /\ pc = "idle"
    /\ tools_done < MaxTools
    /\ tools_done' = tools_done + 1
    /\ tool_name' = "edit_and_apply_multiple"
    /\ files' \in SeqsUpTo(FileEntries, MaxFiles)
    /\ max_retries' = DefaultRetries
    /\ pc' = IF files' = <<>> THEN "returned" ELSE "start"
    /\ UNCHANGED <<caller, fidx, attempt, path, instructions, original_content,
                   edit_instructions, applyLocals, results, observers,
                   file_contents, code_editor_files, storage, parseVars,
                   procVars, autoVars>>

\* Lines 1132-1143 and 1529-1532: the batch has returned its summary, or a
\* KeyError has ended it; chat_with_claude leaves the cache as the batch left
\* it
ToolEditEnd ==
    /\ pc \in {"returned", "raised"}
    /\ tool_name = "edit_and_apply_multiple"
    /\ pc' = "idle"
    /\ files' = <<>>
    /\ max_retries' = DefaultRetries
    /\ fidx' = 1
    /\ path' = "p1"
    /\ results' = <<>>
    /\ attempt' = 0
    /\ instructions' = <<>>
    /\ original_content' = <<>>
    /\ edit_instructions' = <<>>
    /\ edit_i' = 0
    /\ edited_content' = <<>>
    /\ changes_made' = FALSE
    /\ failed_edits' = <<>>
    /\ console_output' = <<>>
    /\ gen_calls' = 0
    /\ gen_error' = FALSE
    /\ writes' = 0
    /\ wrote' = FALSE
    /\ hist' = <<>>
    /\ read_storage' = FALSE
    /\ UNCHANGED <<caller, file_contents, code_editor_files, storage, parseVars,
                   sessionVars>>

NextTools ==
    \/ ToolCreateFiles
    \/ ToolReadFile
    \/ ToolReadMultipleFiles
    \/ ToolEditBegin
    \/ Start
    \/ Generate
    \/ ApplyEdit
    \/ ApplyWrite
    \/ Decide
    \/ EndLoop
    \/ ToolEditEnd

SpecTools == InitTools /\ [][NextTools]_vars

\* C24: between tool uses, every path the cache holds maps to exactly the
\* content its file holds, after any sequence of create_files, read_file,
\* read_multiple_files and edit_and_apply_multiple uses, each succeeding or
\* failing per file.
C24_CacheMatchesStorage ==
    pc = "idle" =>
       \A p \in Paths : file_contents[p] # Absent => file_contents[p] = storage[p]

(***************************************************************************)
(* The process tools: execute_code and stop_process, as execute_tool runs  *)
(* them                                                                    *)
(***************************************************************************)

\* What the process started by execute_code does within the timeout of line
\* 788: it ends with a return code, or it is still running
ExecOutcomes == {"0", "1", "Running"}

\* len(running_processes), line 762: the n of the new process id
new_process_id(registry) == Cardinality(DOMAIN registry)

\* running_processes[process_id] = process, line 784
register(registry, id, h) ==
    [n \in DOMAIN registry \cup {id} |-> IF n = id THEN h ELSE registry[n]]

\* del running_processes[process_id], line 907
unregister(registry, id) == [n \in DOMAIN registry \ {id} |-> registry[n]]

\* Line 1129: the note is added when the id is in the registry
has_note(registry, id) == id \in DOMAIN registry

InitProc ==
    /\ caller = "session"
    /\ pc = "idle"
    /\ BatchIdle
    /\ storage = [p \in Paths |-> NotFound]
    /\ file_contents = [p \in Paths |-> Absent]
    /\ code_editor_files = {}
    /\ response_text = <<>>
    /\ returned_blocks = <<>>
    /\ parse_input = NoParse
    /\ NoSession

fileVars == <<caller, pc, batchVars, file_contents, code_editor_files, storage,
              parseVars, toolVars>>

\* execute_code, lines 758-799, and lines 1124-1130 of execute_tool: a process
\* is started under the id process_{len(running_processes)} and registered;
\* the result tells its return code, or "Running" after the timeout
ExecuteCode ==
    /\ caller = "session"
    /\ spawned < MaxProcs
    /\ LET process_id == new_process_id(running_processes)
           process    == spawned + 1
       IN  /\ spawned' = process
           /\ running_processes' = register(running_processes, process_id, process)
           /\ \E return_code \in ExecOutcomes :
                /\ proc_status' = [proc_status EXCEPT ![process] =
                                      IF return_code = "Running" THEN "running"
                                      ELSE "exited"]
                /\ exec_result' = [process_id |-> process_id,
                                   return_code |-> return_code,
                                   note |-> has_note(running_processes', process_id)]
    /\ UNCHANGED <<fileVars, stop_result, autoVars>>

\* stop_process, lines 900-910: a registered process is signalled and taken
\* out of the registry.  Signalling a process that has exited either still
\* finds its process group, or raises (line 906) and the entry stays.
StopProcess ==
    /\ caller = "session"
    /\ \E process_id \in 0..MaxProcs :
         IF process_id \in DOMAIN running_processes
         THEN \/ /\ proc_status' = [proc_status EXCEPT
                                        ![running_processes[process_id]] = "stopped"]
                 /\ running_processes' = unregister(running_processes, process_id)
                 /\ stop_result' = "stopped"
              \/ /\ proc_status[running_processes[process_id]] = "exited"
                 /\ stop_result' = "error"
                 /\ UNCHANGED <<running_processes, proc_status>>
         ELSE /\ stop_result' = "not_found"
              /\ UNCHANGED <<running_processes, proc_status>>
    /\ UNCHANGED <<fileVars, spawned, exec_result, autoVars>>

\* A process left running in the background ends on its own
ProcessExits ==
    /\ caller = "session"
    /\ \E h \in 1..MaxProcs :
         /\ proc_status[h] = "running"
         /\ proc_status' = [proc_status EXCEPT ![h] = "exited"]
    /\ UNCHANGED <<fileVars, running_processes, spawned, exec_result, stop_result,
                   autoVars>>

NextProc ==
    \/ ExecuteCode
    \/ StopProcess
    \/ ProcessExits

SpecProc == InitProc /\ [][NextProc]_vars

\* C25: process ids are unique among the registered processes: execute_code
\* never takes an id that is a key of running_processes, so every process
\* that was started and has not been stopped is still in the registry, under
\* an id of its own.
C25_UniqueProcessIds ==
    caller = "session" =>
       /\ \A h \in 1..spawned :
             proc_status[h] # "stopped" =>
                \E n \in DOMAIN running_processes : running_processes[n] = h
       /\ Cardinality(DOMAIN running_processes)
             = Cardinality({h \in 1..spawned : proc_status[h] # "stopped"})

\* C26: the result of an execute_code tool use carries the note "The process
\* is still running in the background" only when the process had not finished
\* within the timeout; after a return code was obtained the note is absent.
C26_NoteOnlyWhenRunning ==
    caller = "session" => (exec_result.note => exec_result.return_code = "Running")

(***************************************************************************)
(* The automode command of main                                            *)
(***************************************************************************)

\* the largest number typed after 'automode'
MaxIterations == 3

\* main.py:182, the limit when no number is typed
MAX_CONTINUATION_ITERATIONS == 25

\* What the user types: 'automode N' for a number N, or 'automode' alone
AutomodeLimits == (0..MaxIterations) \cup {MAX_CONTINUATION_ITERATIONS}

InitAuto ==
    /\ caller = "main"
    /\ pc = "prompt"
    /\ BatchIdle
    /\ storage = [p \in Paths |-> NotFound]
    /\ file_contents = [p \in Paths |-> Absent]
    /\ code_editor_files = {}
    /\ response_text = <<>>
    /\ returned_blocks = <<>>
    /\ parse_input = NoParse
    /\ NoSession

restVars == <<caller, batchVars, file_contents, code_editor_files, storage,
              parseVars, toolVars, procVars>>

\* Lines 1771-1781: 'automode [number]' is typed at the regular prompt
AutomodeCommand ==
    /\ caller = "main"
    /\ pc = "prompt"
    /\ max_iterations' \in AutomodeLimits
    /\ automode' = TRUE
    /\ pc' = "goal"
    /\ iterations_run' = 0
    /\ completed' = FALSE
    /\ UNCHANGED <<restVars, iteration_count, chat_automode>>

\* Lines 1782-1784 and 1805-1811: the goal is typed, or Ctrl+C is pressed at
\* the goal prompt
EnterGoal ==
    /\ caller = "main"
    /\ pc = "goal"
    /\ \/ /\ iteration_count' = 0
          /\ pc' = "loop"
          /\ UNCHANGED automode
       \/ /\ automode' = FALSE
          /\ pc' = "prompt"
          /\ UNCHANGED iteration_count
    /\ UNCHANGED <<restVars, max_iterations, iterations_run, completed,
                   chat_automode>>

\* The loop entered however many iterations were made
loop_continues_ignores_flag(flag, count, limit) == count < limit

\* Line 1786: while automode and iteration_count < max_iterations
loop_continues(flag, count, limit) == flag /\ count < limit

\* Line 1786 and 1811: the test of the loop; when it fails, "Exited automode"
\* and back to the regular prompt
LoopTest ==
    /\ caller = "main"
    /\ pc = "loop"
    /\ pc' = IF loop_continues(automode, iteration_count, max_iterations)
             THEN "chat" ELSE "prompt"
    /\ UNCHANGED <<restVars, autoVars>>

\* Lines 1787-1804: one iteration.  The response holds the exit phrase or
\* not, or Ctrl+C is pressed during the call.
AutomodeIteration ==
    /\ caller = "main"
    /\ pc = "chat"
    /\ iterations_run' = iterations_run + 1
    /\ \/ \E phrase \in BOOLEAN :
            /\ completed' = (completed \/ phrase)
            /\ iteration_count' = iteration_count + 1
            /\ automode' = IF phrase \/ iteration_count' >= max_iterations
                           THEN FALSE ELSE automode
            /\ pc' = "loop"
       \/ /\ automode' = FALSE
          /\ pc' = "prompt"
          /\ UNCHANGED <<iteration_count, completed>>
    /\ UNCHANGED <<restVars, max_iterations, chat_automode>>

\* Line 1813: a regular chat turn; chat_with_claude builds the system prompt
\* (line 315) and runs its tools (line 1111) with the flag as it stands
RegularChat ==
    /\ caller = "main"
    /\ pc = "prompt"
    /\ chat_automode' = automode
    /\ UNCHANGED <<restVars, pc, automode, max_iterations, iteration_count,
                   iterations_run, completed>>

NextAuto ==
    \/ AutomodeCommand
    \/ EnterGoal
    \/ LoopTest
    \/ AutomodeIteration
    \/ RegularChat

SpecAuto == InitAuto /\ [][NextAuto]_vars

\* At most N chat calls in a run with limit N, and none under way after a
\* response with the exit phrase
C27_Bound ==
    caller = "main" =>
       /\ iterations_run <= max_iterations
       /\ pc \in {"loop", "chat"} => iterations_run = iteration_count
       /\ completed => (pc # "chat" /\ ~automode)

\* No step of a run makes a chat call once a response held the exit phrase
C27_Step ==
    (caller = "main" /\ completed /\ pc # "prompt") => iterations_run' = iterations_run

\* C27: automode with iteration limit N runs at most N iterations of its
\* loop, and runs no further iteration after a response that contains
\* AUTOMODE_COMPLETE.
C27_AutomodeBounded == []C27_Bound /\ [][C27_Step]_vars

\* A run with limit 3 is back at the regular prompt after two iterations, the
\* second of which brought the exit phrase
C27_Witness ==
    /\ caller = "main"
    /\ pc = "prompt"
    /\ max_iterations = 3
    /\ iterations_run = 2
    /\ iteration_count = 2
    /\ completed
    /\ ~automode

\* C28: whenever main is back at the regular prompt after an 'automode
\* [number]' command, by the exit phrase, by the iteration limit or by an
\* interrupt, and for every number including 0, the automode flag is False.
C28_FlagClearedAtPrompt ==
    (caller = "main" /\ pc = "prompt") => ~automode

(***************************************************************************)
(* The replacement text and the accounting of apply_edits (checked under   *)
(* SpecApply)                                                              *)
(***************************************************************************)

\* C29: the text apply_edits splices into the document contains none of the
\* markers <SEARCH>, </SEARCH>, <REPLACE>, </REPLACE>, whatever the
\* replacement fragment.  The documents apply_edits is called with hold no
\* marker, so a marker in the edited document was spliced into it.
C29_NoMarkerSpliced ==
    caller = "direct" => ~HasMarker(edited_content)

\* The indexes of the edits the console output reports as applied
AppliedEdits == {console_output[k].i : k \in {j \in 1..Len(console_output) :
                                                console_output[j].kind = "applied"}}

FailedEdits == {failed_edits[f].i : f \in 1..Len(failed_edits)}

\* C30: apply_edits accounts for every edit exactly once: after a call with n
\* edits, the edits applied and the entries of the failed-edit list are n
\* together, each edit being one or the other; the failed entries stand in
\* input order with the search text of their edit; and changed is true
\* exactly when at least one edit was applied, also when its search and
\* replace fragments are identical and the text does not differ.
C30_EveryEditAccounted ==
    (caller = "direct" /\ pc = "returned") =>
       LET n == Len(edit_instructions)
       IN  /\ Cardinality(AppliedEdits) + Len(failed_edits) = n
           /\ AppliedEdits \cup FailedEdits = 1..n
           /\ AppliedEdits \cap FailedEdits = {}
           /\ \A f \in 1..Len(failed_edits) :
                 /\ failed_edits[f].search = strip(edit_instructions[failed_edits[f].i].search)
                 /\ \A g \in 1..(f - 1) : failed_edits[g].i < failed_edits[f].i
           /\ changes_made <=> AppliedEdits # {}

\* "ab" edited by [b -> b, x -> y]: the first edit was applied and left the
\* text as it was, the second failed
C30_Witness ==
    /\ caller = "direct"
    /\ pc = "returned"
    /\ original_content = Str_ab
    /\ Len(edit_instructions) = 2
    /\ edit_instructions[1].search = edit_instructions[1].replace
    /\ edited_content = original_content
    /\ changes_made
    /\ AppliedEdits = {1}
    /\ failed_edits = <<[i |-> 2, search |-> <<"x">>]>>

====
